---- MODULE Spec2Model ----
\* Model of drive_gpt_app.py: a Streamlit script that authenticates against
\* Google Drive, lists files, extracts the content of the selected files and
\* sends it with a user prompt to Gemini.
\*
\* Python str values are sequences of Unicode code points, bytes values are
\* sequences of integers in 0..255.  Tags that the code only compares
\* ('text', 'image', 'unsupported') and positions of the script are TLA+ strings.
EXTENDS Integers, Sequences, FiniteSets, TLC

\* ------------------------------------------------------------------ bounds
MaxBytesLen == 2
MaxFetchLen == 1
MaxItems == 2
MaxPages == 2
MaxSlides == 2
MaxShapes == 2

\* ------------------------------------------------------ string literals
\* ''
EmptyStr == <<>>
\* 'text/'
TextPrefix == <<116, 101, 120, 116, 47>>
\* 'image/'
ImagePrefix == <<105, 109, 97, 103, 101, 47>>
\* 'application/pdf'
MimePdf == <<97, 112, 112, 108, 105, 99, 97, 116, 105, 111, 110, 47, 112, 100, 102>>
\* 'application/vnd.openxmlformats-officedocument.wordprocessingml.document'
MimeDocx == <<97, 112, 112, 108, 105, 99, 97, 116, 105, 111, 110, 47, 118, 110, 100, 46, 111, 112, 101, 110, 120, 109, 108, 102, 111, 114, 109, 97, 116, 115, 45, 111, 102, 102, 105, 99, 101, 100, 111, 99, 117, 109, 101, 110, 116, 46, 119, 111, 114, 100, 112, 114, 111, 99, 101, 115, 115, 105, 110, 103, 109, 108, 46, 100, 111, 99, 117, 109, 101, 110, 116>>
\* 'application/msword'
MimeMsword == <<97, 112, 112, 108, 105, 99, 97, 116, 105, 111, 110, 47, 109, 115, 119, 111, 114, 100>>
\* 'application/vnd.openxmlformats-officedocument.presentationml.presentation'
MimePptx == <<97, 112, 112, 108, 105, 99, 97, 116, 105, 111, 110, 47, 118, 110, 100, 46, 111, 112, 101, 110, 120, 109, 108, 102, 111, 114, 109, 97, 116, 115, 45, 111, 102, 102, 105, 99, 101, 100, 111, 99, 117, 109, 101, 110, 116, 46, 112, 114, 101, 115, 101, 110, 116, 97, 116, 105, 111, 110, 109, 108, 46, 112, 114, 101, 115, 101, 110, 116, 97, 116, 105, 111, 110>>
\* 'Unsupported MIME type: '
UnsupportedMimePrefix == <<85, 110, 115, 117, 112, 112, 111, 114, 116, 101, 100, 32, 77, 73, 77, 69, 32, 116, 121, 112, 101, 58, 32>>
\* 'Error reading file: '
ErrorReadingPrefix == <<69, 114, 114, 111, 114, 32, 114, 101, 97, 100, 105, 110, 103, 32, 102, 105, 108, 101, 58, 32>>
\* 'ERROR: Could not generate response from Gemini. Details: '
GeminiErrorPrefix == <<69, 82, 82, 79, 82, 58, 32, 67, 111, 117, 108, 100, 32, 110, 111, 116, 32, 103, 101, 110, 101, 114, 97, 116, 101, 32, 114, 101, 115, 112, 111, 110, 115, 101, 32, 102, 114, 111, 109, 32, 71, 101, 109, 105, 110, 105, 46, 32, 68, 101, 116, 97, 105, 108, 115, 58, 32>>
\* '\n--- DOCUMENT: '
DocumentHeaderOpen == <<10, 45, 45, 45, 32, 68, 79, 67, 85, 77, 69, 78, 84, 58, 32>>
\* ' ---\n'
DocumentHeaderClose == <<32, 45, 45, 45, 10>>
\* '\n'
NL == <<10>>

\* ------------------------------------------------- input alphabets (bounded)
\* 'text/plain', 'image/png', 'application/zip': sample media types of the
\* three classes the prefix tests and the fall-through distinguish.
MimeTextPlain == <<116, 101, 120, 116, 47, 112, 108, 97, 105, 110>>
MimeImagePng == <<105, 109, 97, 103, 101, 47, 112, 110, 103>>
MimeZip == <<97, 112, 112, 108, 105, 99, 97, 116, 105, 111, 110, 47, 122, 105, 112>>
\* 'a', 'b': file names
Names == {<<97>>, <<98>>}
\* 'A' (0x41), a two-byte lead (0xC3), a continuation byte (0xA9), a
\* three-byte lead (0xE2) and a byte that is never valid in UTF-8 (0xFF)
ByteAlphabet == {65, 195, 169, 226, 255}
\* the bytes of the files of a whole script run: 'A' and the invalid byte
RunByteAlphabet == {65, 255}
\* '404': str(e) of an exception raised by a library call
ExcMsgs == {<<52, 48, 52>>}
\* texts a parsed page, paragraph or shape can carry: '' and 'A'
PartTexts == {<<>>, <<65>>}

SeqsUpTo(S, n) == UNION {[1..k -> S] : k \in 0..n}

\* ------------------------------------------------------- Python primitives
\* str.startswith
StartsWith(s, p) == Len(s) >= Len(p) /\ SubSeq(s, 1, Len(p)) = p

\* dict.get(key, default)
Get(d, key, default) == IF key \in DOMAIN d THEN d[key] ELSE default

\* concatenation of a sequence of strings (text += part, in order)
RECURSIVE ConcatAll(_)
ConcatAll(parts) ==
    IF parts = <<>> THEN <<>> ELSE Head(parts) \o ConcatAll(Tail(parts))

\* sep.join(parts)
RECURSIVE Join(_, _)
Join(sep, parts) ==
    IF parts = <<>> THEN <<>>
    ELSE IF Len(parts) = 1 THEN parts[1]
    ELSE parts[1] \o sep \o Join(sep, Tail(parts))

\* --- bytes.decode("utf-8", errors) ---
ReplacementChar == 65533

\* number of continuation bytes a lead byte asks for; -1 for a byte that
\* cannot start a sequence
Utf8Need(lead) ==
    IF lead < 128 THEN 0
    ELSE IF lead >= 194 /\ lead <= 223 THEN 1
    ELSE IF lead >= 224 /\ lead <= 239 THEN 2
    ELSE IF lead >= 240 /\ lead <= 244 THEN 3
    ELSE -1

\* the second byte's range depends on the lead (no overlong forms, no
\* surrogates, nothing above U+10FFFF)
Utf8SecondOk(lead, b) ==
    /\ b >= (IF lead = 224 THEN 160 ELSE IF lead = 240 THEN 144 ELSE 128)
    /\ b <= (IF lead = 237 THEN 159 ELSE IF lead = 244 THEN 143 ELSE 191)

Utf8ContOk(b, j) ==
    /\ j + 1 <= Len(b)
    /\ IF j = 1 THEN Utf8SecondOk(b[1], b[2])
       ELSE b[j + 1] >= 128 /\ b[j + 1] <= 191

\* how many of the continuation bytes asked for are there and valid
Utf8Good(b, n) ==
    IF n >= 1 /\ Utf8ContOk(b, 1)
    THEN IF n >= 2 /\ Utf8ContOk(b, 2)
         THEN IF n >= 3 /\ Utf8ContOk(b, 3) THEN 3 ELSE 2
         ELSE 1
    ELSE 0

Utf8CodePoint(b, n) ==
    IF n = 1 THEN (b[1] - 192) * 64 + (b[2] - 128)
    ELSE IF n = 2 THEN (b[1] - 224) * 4096 + (b[2] - 128) * 64 + (b[3] - 128)
    ELSE (b[1] - 240) * 262144 + (b[2] - 128) * 4096 + (b[3] - 128) * 64 + (b[4] - 128)

\* what the error handler puts in place of an undecodable sequence
Utf8OnError(errors) == IF errors = "replace" THEN <<ReplacementChar>> ELSE <<>>

RECURSIVE Utf8Decode(_, _)
Utf8Decode(b, errors) ==
    IF b = <<>> THEN <<>>
    ELSE LET n == Utf8Need(b[1])
             good == Utf8Good(b, n)
         IN  IF n = 0 THEN <<b[1]>> \o Utf8Decode(Tail(b), errors)
             ELSE IF n = -1 THEN Utf8OnError(errors) \o Utf8Decode(Tail(b), errors)
             ELSE IF good = n
                  THEN <<Utf8CodePoint(b, n)>> \o Utf8Decode(SubSeq(b, n + 2, Len(b)), errors)
                  ELSE Utf8OnError(errors)
                       \o Utf8Decode(SubSeq(b, good + 2, Len(b)), errors)

\* ------------------------------------------------ messages of the script
\* "'google_credentials'"
KeyErrorGoogleCredentials == <<39, 103, 111, 111, 103, 108, 101, 95, 99, 114, 101, 100, 101, 110, 116, 105, 97, 108, 115, 39>>
\* "'id'"
KeyErrorId == <<39, 105, 100, 39>>
\* "'GOOGLE_API_KEY'"
KeyErrorApiKey == <<39, 71, 79, 79, 71, 76, 69, 95, 65, 80, 73, 95, 75, 69, 89, 39>>
\* 'The "google_credentials" secret is missing. Please add it to your Streamlit secrets.'
MsgSecretMissing == <<84, 104, 101, 32, 34, 103, 111, 111, 103, 108, 101, 95, 99, 114, 101, 100, 101, 110, 116, 105, 97, 108, 115, 34, 32, 115, 101, 99, 114, 101, 116, 32, 105, 115, 32, 109, 105, 115, 115, 105, 110, 103, 46, 32, 80, 108, 101, 97, 115, 101, 32, 97, 100, 100, 32, 105, 116, 32, 116, 111, 32, 121, 111, 117, 114, 32, 83, 116, 114, 101, 97, 109, 108, 105, 116, 32, 115, 101, 99, 114, 101, 116, 115, 46>>
\* 'Could not load Google credentials from secrets. Ensure they are correctly configured.'
MsgSecretsBad == <<67, 111, 117, 108, 100, 32, 110, 111, 116, 32, 108, 111, 97, 100, 32, 71, 111, 111, 103, 108, 101, 32, 99, 114, 101, 100, 101, 110, 116, 105, 97, 108, 115, 32, 102, 114, 111, 109, 32, 115, 101, 99, 114, 101, 116, 115, 46, 32, 69, 110, 115, 117, 114, 101, 32, 116, 104, 101, 121, 32, 97, 114, 101, 32, 99, 111, 114, 114, 101, 99, 116, 108, 121, 32, 99, 111, 110, 102, 105, 103, 117, 114, 101, 100, 46>>
\* 'Specific error: '
MsgSpecificErrorPrefix == <<83, 112, 101, 99, 105, 102, 105, 99, 32, 101, 114, 114, 111, 114, 58, 32>>
\* '[Authorize Google Drive](https://accounts.google.com/o/oauth2/auth)'
MsgAuthorizeLink == <<91, 65, 117, 116, 104, 111, 114, 105, 122, 101, 32, 71, 111, 111, 103, 108, 101, 32, 68, 114, 105, 118, 101, 93, 40, 104, 116, 116, 112, 115, 58, 47, 47, 97, 99, 99, 111, 117, 110, 116, 115, 46, 103, 111, 111, 103, 108, 101, 46, 99, 111, 109, 47, 111, 47, 111, 97, 117, 116, 104, 50, 47, 97, 117, 116, 104, 41>>
\* 'No files found in your Google Drive.'
MsgNoFiles == <<78, 111, 32, 102, 105, 108, 101, 115, 32, 102, 111, 117, 110, 100, 32, 105, 110, 32, 121, 111, 117, 114, 32, 71, 111, 111, 103, 108, 101, 32, 68, 114, 105, 118, 101, 46>>
\* 'Skipping unsupported file: '
MsgSkippingPrefix == <<83, 107, 105, 112, 112, 105, 110, 103, 32, 117, 110, 115, 117, 112, 112, 111, 114, 116, 101, 100, 32, 102, 105, 108, 101, 58, 32>>
\* 'Sending '
MsgSendingPrefix == <<83, 101, 110, 100, 105, 110, 103, 32>>
\* ' file(s) to Gemini for analysis...'
MsgSendingSuffix == <<32, 102, 105, 108, 101, 40, 115, 41, 32, 116, 111, 32, 71, 101, 109, 105, 110, 105, 32, 102, 111, 114, 32, 97, 110, 97, 108, 121, 115, 105, 115, 46, 46, 46>>
\* "Gemini's Response:"
MsgResponseHeader == <<71, 101, 109, 105, 110, 105, 39, 115, 32, 82, 101, 115, 112, 111, 110, 115, 101, 58>>
\* 'Processing files...'
LabelProcessingFiles == <<80, 114, 111, 99, 101, 115, 115, 105, 110, 103, 32, 102, 105, 108, 101, 115, 46, 46, 46>>
\* 'Processing: '
LabelProcessingPrefix == <<80, 114, 111, 99, 101, 115, 115, 105, 110, 103, 58, 32>>
\* '...'
LabelEllipsis == <<46, 46, 46>>
\* 'All files processed!'
LabelAllProcessed == <<65, 108, 108, 32, 102, 105, 108, 101, 115, 32, 112, 114, 111, 99, 101, 115, 115, 101, 100, 33>>
\* ' ('
OpenParen == <<32, 40>>
\* ')'
CloseParen == <<41>>

\* ------------------------------------------------------ get_file_content
\* outcome of a function body: a returned (content_type, content) pair or a
\* raised exception carrying str(e)
Return(type, content) == [raised |-> FALSE, type |-> type, content |-> content]
Raise(e) == [raised |-> TRUE, cls |-> "Exception", exc |-> e]
RaiseKeyError(key) == [raised |-> TRUE, cls |-> "KeyError", exc |-> key]

\* errors="replace" in place of errors="ignore"
DecodeTextReplace(file_bytes) == Utf8Decode(file_bytes, "replace")

\* line 32: file_bytes.decode("utf-8", errors="ignore")
DecodeText(file_bytes) == Utf8Decode(file_bytes, "ignore")

\* lines 36-38: text of the pages, in page order
PdfText(pages) == ConcatAll(pages)

\* line 46: "\n".join of the paragraph texts
DocxText(paragraphs) == Join(NL, paragraphs)

\* lines 55-57: shape.text + "\n" for every shape of a slide that has a text
RECURSIVE SlideText(_)
SlideText(shapes) ==
    IF shapes = <<>> THEN <<>>
    ELSE (IF "text" \in DOMAIN Head(shapes) THEN Head(shapes).text \o NL ELSE <<>>)
         \o SlideText(Tail(shapes))

\* lines 53-57: slide order, then shape order
RECURSIVE PptxText(_)
PptxText(slides) ==
    IF slides = <<>> THEN <<>>
    ELSE SlideText(Head(slides)) \o PptxText(Tail(slides))

\* lines 28-64, the body of the try block.  fetch is the outcome of
\* request.execute(), parse the outcome of the document library on the bytes.
TryBody(mime_type, fetch, parse) ==
    IF ~fetch.ok THEN Raise(fetch.e)
    ELSE IF StartsWith(mime_type, TextPrefix)
         THEN Return("text", DecodeText(fetch.bytes))
    ELSE IF mime_type = MimePdf
         THEN IF parse.ok THEN Return("text", PdfText(parse.doc)) ELSE Raise(parse.e)
    ELSE IF mime_type \in {MimeDocx, MimeMsword}
         THEN IF parse.ok THEN Return("text", DocxText(parse.doc)) ELSE Raise(parse.e)
    ELSE IF mime_type \in {MimePptx}
         THEN IF parse.ok THEN Return("text", PptxText(parse.doc)) ELSE Raise(parse.e)
    ELSE IF StartsWith(mime_type, ImagePrefix)
         THEN Return("image", fetch.bytes)
    ELSE Return("unsupported", UnsupportedMimePrefix \o mime_type)

\* the try block without its except clause
ExceptHandlerReraise(r) == r

\* lines 66-67: except Exception as e
ExceptHandler(r) ==
    IF r.raised THEN Return("unsupported", ErrorReadingPrefix \o r.exc) ELSE r

GetFileContent(file_info, fetch, parse) ==
    IF "id" \notin DOMAIN file_info THEN RaiseKeyError(KeyErrorId)
    ELSE ExceptHandler(TryBody(Get(file_info, "mimeType", EmptyStr), fetch, parse))

\* --------------------------------------------------------- bounded inputs
MimeTypes == {MimeTextPlain, MimePdf, MimeDocx, MimeMsword, MimePptx,
              MimeImagePng, MimeZip, EmptyStr}

\* a record of the listing: id, name and, unless the provider left it out,
\* mimeType
FileRecordsAt(id, mimes) ==
    {[id |-> id, name |-> n, mimeType |-> m] : n \in Names, m \in mimes}
    \cup {[id |-> id, name |-> n] : n \in Names}

FetchOutcomes(alphabet, maxLen) ==
    {[ok |-> TRUE, bytes |-> b] : b \in SeqsUpTo(alphabet, maxLen)}
    \cup {[ok |-> FALSE, e |-> m] : m \in ExcMsgs}

ParseFailures == {[ok |-> FALSE, e |-> m] : m \in ExcMsgs}
Shapes == {[shape_type |-> "picture"], [shape_type |-> "text_box", text |-> <<65>>]}

\* what the document library makes of the bytes; it is not called for a
\* media type that has no document branch
ParseOutcomes(mime_type) ==
    IF mime_type \in {MimePdf, MimeDocx, MimeMsword}
    THEN ParseFailures \cup {[ok |-> TRUE, doc |-> d] : d \in SeqsUpTo(PartTexts, MaxPages)}
    ELSE IF mime_type = MimePptx
    THEN ParseFailures
         \cup {[ok |-> TRUE, doc |-> d] : d \in SeqsUpTo(SeqsUpTo(Shapes, MaxShapes), MaxSlides)}
    ELSE {[ok |-> TRUE]}

\* ------------------------------------------------------------------ state
VARIABLES
    secrets,                 \* st.secrets: secret name -> value
    credentials,             \* st.session_state.credentials
    query_params,            \* st.query_params
    drive,                   \* the records the provider's listing returns
    pc,                      \* position of the script run
    button,                  \* the run was triggered by the analyze button
    widgets,                 \* the selector, prompt box and button are on the page
    items,                   \* line 124
    selected_files_display,  \* value of the multiselect
    user_prompt,             \* value of the text area
    status,                  \* the st.status box
    prompt_parts,            \* line 139
    processed,               \* iterations of the for loop that have finished
    call,                    \* the get_file_content call in progress
    ret,                     \* what the last get_file_content call returned
    extracted,               \* (name, content_type, content) of the finished iterations
    requests,                \* requests the run has sent, in order
    display,                 \* what the run has put on the page, in order
    runEnd                   \* how the last run ended

vars == <<secrets, credentials, query_params, drive, pc, button, widgets, items,
          selected_files_display, user_prompt, status, prompt_parts, processed,
          call, ret, extracted, requests, display, runEnd>>

env == <<secrets, drive>>
widgetState == <<selected_files_display, user_prompt>>
loopState == <<status, prompt_parts, processed, call, ret, extracted>>

\* ---------------------------------------------------------- value spaces
SecretNames == {"google_credentials", "GOOGLE_API_KEY"}
\* "good": a well-formed client configuration / a key the service accepts;
\* "bad": a malformed configuration / a key the service rejects
Secrets == UNION {[K -> {"good", "bad"}] : K \in SUBSET SecretNames}

\* session_state without the key, the key holding None, or a JSON string
NoKey == "<absent>"
None == "None"
Token == "t1"
Codes == {"code-valid", "code-expired"}
QueryParams == UNION {[K -> Codes] : K \in SUBSET {"code"}}

\* 'S' and the empty text area
Prompts == {<<>>, <<83>>}
\* 'ok': a reply of the model
Replies == {<<111, 107>>}

\* the listing carries the media type of every file; ids are '1', '2', ...
DriveMimeTypes == {MimeTextPlain, MimePdf, MimeImagePng, MimeZip}
DriveRecordsAt(i) ==
    {[id |-> <<48 + i>>, name |-> n, mimeType |-> m] : n \in Names, m \in DriveMimeTypes}
Drives ==
    UNION {{d \in [1..k -> UNION {DriveRecordsAt(i) : i \in 1..k}] :
               \A i \in 1..k : d[i] \in DriveRecordsAt(i)} : k \in 0..MaxItems}

NoCall == [none |-> TRUE]
NoStatus == [label |-> <<>>, state |-> "none"]

Range(f) == {f[i] : i \in DOMAIN f}

\* entries of prompt_parts: a str or a PIL image
StrPart(s) == [str |-> s]
ImagePart(img) == [image |-> img]

\* ---------------------------------------------------------------- helpers
\* creds.to_json() and Credentials.from_authorized_user_info(json.loads(..))
ToJson(creds) == "json:" \o creds
FromAuthorizedUserInfo(json) == SubSeq(json, 6, Len(json))

\* truth value of session_state.credentials (None is false, a JSON string true)
Truthy(c) == c \notin {NoKey, None}

\* the assignment of line 90 without the test of line 89
InitCredentialsAlways(c) == None

\* lines 89-90
InitCredentials(c) == IF c = NoKey THEN None ELSE c

\* a flow object that is built without reading the configuration
FromClientConfigLazy(s) == [raised |-> FALSE]

\* lines 94-98: Flow.from_client_config(st.secrets["google_credentials"], ..)
FromClientConfig(s) ==
    IF "google_credentials" \notin DOMAIN s THEN RaiseKeyError(KeyErrorGoogleCredentials)
    ELSE IF s["google_credentials"] # "good" THEN Raise(CHOOSE m \in ExcMsgs : TRUE)
    ELSE [raised |-> FALSE]

\* lines 111-115
AuthErrors(r) ==
    IF r.cls = "KeyError" THEN <<[kind |-> "error", text |-> MsgSecretMissing]>>
    ELSE <<[kind |-> "error", text |-> MsgSecretsBad],
           [kind |-> "error", text |-> MsgSpecificErrorPrefix \o r.exc]>>

\* line 129: a dict comprehension keyed by name; a later item replaces an
\* earlier one of the same name
FileOptions(its) ==
    [n \in {its[i].name : i \in DOMAIN its} |->
        its[CHOOSE i \in DOMAIN its :
                /\ its[i].name = n
                /\ \A j \in DOMAIN its : its[j].name = n => j <= i]]

\* the values a multiselect over these options can take: distinct options in
\* the order the user picked them
Selections(options) ==
    {sel \in SeqsUpTo(options, Cardinality(options)) :
        \A i, j \in DOMAIN sel : i # j => sel[i] # sel[j]}

\* line 138
ButtonDisabled(sel, prompt) == sel = <<>> \/ prompt = <<>>

\* the selected entries taken from the end of the list
NextFileDisplayReversed(sel, done) == sel[Len(sel) - done]

\* line 141: the for loop takes the selected entries in list order
NextFileDisplay(sel, done) == sel[done + 1]

\* line 148
DocumentPart(name, content) ==
    DocumentHeaderOpen \o name \o DocumentHeaderClose \o content

\* line 153
SkipWarning(name, content) ==
    [kind |-> "warning",
     text |-> MsgSkippingPrefix \o name \o OpenParen \o content \o CloseParen]

\* the model step without the test of line 157
HasPartsAlways(parts) == TRUE

\* line 157
HasParts(parts) == parts # <<>>

\* append in place of insert(0, ..)
InsertLast(parts, prompt) == Append(parts, StrPart(prompt))

\* line 158: prompt_parts.insert(0, user_prompt)
InsertFirst(parts, prompt) == <<StrPart(prompt)>> \o parts

\* lines 75-81; outcome is what the service does with the request
GetGeminiResponse(api_key, parts, outcome) ==
    IF outcome.ok THEN outcome.text ELSE GeminiErrorPrefix \o outcome.e

\* a rejected key fails the call; an accepted key can still meet a network or
\* quota failure, or a reply without text
GenerateOutcomes(api_key) ==
    {[ok |-> FALSE, e |-> m] : m \in ExcMsgs}
    \cup (IF api_key = "good" THEN {[ok |-> TRUE, text |-> t] : t \in Replies} ELSE {})

\* str(len(selected_files_display)) for the lengths the model reaches
IntStr(n) == <<48 + n>>

\* line 123
PageSize == 50

Say(kind, text) == [kind |-> kind, text |-> text]

\* ----------------------------------------------------------------- Init
Init ==
    /\ secrets \in Secrets
    /\ credentials = NoKey
    /\ query_params \in QueryParams
    /\ drive \in Drives
    /\ pc = "start"
    /\ button = FALSE
    /\ widgets = FALSE
    /\ items = <<>>
    /\ selected_files_display = <<>>
    /\ user_prompt = <<>>
    /\ status = NoStatus
    /\ prompt_parts = <<>>
    /\ processed = 0
    /\ call = NoCall
    /\ ret = NoCall
    /\ extracted = <<>>
    /\ requests = <<>>
    /\ display = <<>>
    /\ runEnd = "running"

\* ------------------------------------------------------- the script run
\* a rerun drops the variables, the requests and the page of the run before
ResetRun ==
    /\ widgets' = FALSE
    /\ items' = <<>>
    /\ status' = NoStatus
    /\ prompt_parts' = <<>>
    /\ processed' = 0
    /\ call' = NoCall
    /\ ret' = NoCall
    /\ extracted' = <<>>
    /\ requests' = <<>>
    /\ display' = <<>>
    /\ runEnd' = "running"

\* lines 84-92: a run starts with an empty page
RunStart ==
    /\ pc = "start"
    /\ credentials' = InitCredentials(credentials)
    /\ pc' = IF Truthy(credentials') THEN "list" ELSE "auth"
    /\ ResetRun
    /\ UNCHANGED <<env, query_params, button, widgetState>>

\* lines 92-115
AuthBlock ==
    /\ pc = "auth"
    /\ LET flow == FromClientConfig(secrets)
           link == Say("markdown", MsgAuthorizeLink)
       IN  IF flow.raised
           THEN /\ display' = display \o AuthErrors(flow)
                /\ pc' = "idle"
                /\ runEnd' = "complete"
                /\ UNCHANGED <<credentials, requests>>
           ELSE IF "code" \in DOMAIN query_params
           THEN \E ok \in (IF query_params["code"] = "code-valid"
                           THEN {TRUE, FALSE} ELSE {FALSE}) :
                  /\ requests' = Append(requests,
                                    [kind |-> "fetch_token", code |-> query_params["code"]])
                  /\ IF ok
                     THEN /\ credentials' = ToJson(Token)
                          /\ display' = Append(display, link)
                          /\ pc' = "start"
                          /\ runEnd' = "rerun"
                     ELSE /\ credentials' = credentials
                          /\ display' = <<link>> \o AuthErrors(Raise(CHOOSE m \in ExcMsgs : TRUE))
                          /\ pc' = "idle"
                          /\ runEnd' = "complete"
           ELSE /\ display' = Append(display, link)
                /\ pc' = "idle"
                /\ runEnd' = "complete"
                /\ UNCHANGED <<credentials, requests>>
    /\ UNCHANGED <<env, query_params, button, widgets, items, widgetState, loopState>>

\* lines 117-124
ListFiles ==
    /\ pc = "list"
    /\ LET creds == FromAuthorizedUserInfo(credentials)
       IN  \E ok \in BOOLEAN :
             /\ requests' = Append(requests, [kind |-> "list", auth |-> creds])
             /\ IF ok
                THEN /\ items' = SubSeq(drive, 1, IF Len(drive) < PageSize
                                                  THEN Len(drive) ELSE PageSize)
                     /\ pc' = "render"
                     /\ runEnd' = runEnd
                ELSE /\ items' = items
                     /\ pc' = "idle"
                     /\ runEnd' = "uncaught"
    /\ UNCHANGED <<env, credentials, query_params, button, widgets, widgetState,
                   loopState, display>>

\* lines 126-140
Render ==
    /\ pc = "render"
    /\ IF items = <<>>
       THEN /\ display' = Append(display, Say("info", MsgNoFiles))
            /\ pc' = "idle"
            /\ runEnd' = "complete"
            /\ UNCHANGED <<widgets, status>>
       ELSE /\ widgets' = TRUE
            /\ display' = display
            /\ IF button /\ ~ButtonDisabled(selected_files_display, user_prompt)
               THEN /\ pc' = "loop"
                    /\ status' = [label |-> LabelProcessingFiles, state |-> "running"]
                    /\ runEnd' = runEnd
               ELSE /\ pc' = "idle"
                    /\ status' = status
                    /\ runEnd' = "complete"
    /\ UNCHANGED <<env, credentials, query_params, button, items, widgetState,
                   prompt_parts, processed, call, ret, extracted, requests>>

\* lines 141-145, up to the request that get_file_content sends
LoopFetch ==
    /\ pc = "loop"
    /\ processed < Len(selected_files_display)
    /\ LET file_display == NextFileDisplay(selected_files_display, processed)
           file_info == FileOptions(items)[file_display]
           creds == FromAuthorizedUserInfo(credentials)
       IN  /\ status' = [label |-> LabelProcessingPrefix \o file_display \o LabelEllipsis,
                         state |-> "running"]
           /\ requests' = Append(requests, [kind |-> "get_media", auth |-> creds,
                                            fileId |-> file_info.id])
           /\ \E fetch \in FetchOutcomes(RunByteAlphabet, MaxFetchLen),
                 parse \in ParseOutcomes(Get(file_info, "mimeType", EmptyStr)) :
                 call' = [file_info |-> file_info, fetch |-> fetch, parse |-> parse]
    /\ pc' = "fetching"
    /\ UNCHANGED <<env, credentials, query_params, button, widgets, items, widgetState,
                   prompt_parts, processed, ret, extracted, display, runEnd>>

\* lines 145-153: get_file_content returns and the loop body uses the result;
\* opens is whether Image.open accepts the bytes
LoopExtract ==
    /\ pc = "fetching"
    /\ LET r == GetFileContent(call.file_info, call.fetch, call.parse)
           name == call.file_info.name
       IN  /\ ret' = r
           /\ call' = NoCall
           /\ \E opens \in BOOLEAN :
                IF r.raised \/ (r.type = "image" /\ ~opens)
                THEN /\ pc' = "idle"
                     /\ runEnd' = "uncaught"
                     /\ UNCHANGED <<prompt_parts, processed, extracted, display>>
                ELSE /\ pc' = "loop"
                     /\ runEnd' = runEnd
                     /\ processed' = processed + 1
                     /\ extracted' = Append(extracted, [name |-> name, type |-> r.type,
                                                        content |-> r.content])
                     /\ IF r.type = "text"
                        THEN /\ prompt_parts' = Append(prompt_parts,
                                                   StrPart(DocumentPart(name, r.content)))
                             /\ display' = display
                        ELSE IF r.type = "image"
                        THEN /\ prompt_parts' = Append(prompt_parts, ImagePart(r.content))
                             /\ display' = display
                        ELSE /\ prompt_parts' = prompt_parts
                             /\ display' = Append(display, SkipWarning(name, r.content))
    /\ UNCHANGED <<env, credentials, query_params, button, widgets, items, widgetState,
                   status, requests>>

\* line 155
LoopEnd ==
    /\ pc = "loop"
    /\ processed = Len(selected_files_display)
    /\ status' = [label |-> LabelAllProcessed, state |-> "complete"]
    /\ pc' = "model"
    /\ UNCHANGED <<env, credentials, query_params, button, widgets, items, widgetState,
                   prompt_parts, processed, call, ret, extracted, requests, display,
                   runEnd>>

\* lines 157-165
ModelStep ==
    /\ pc = "model"
    /\ pc' = "idle"
    /\ IF ~HasParts(prompt_parts)
       THEN /\ runEnd' = "complete"
            /\ UNCHANGED <<prompt_parts, requests, display>>
       ELSE LET parts == InsertFirst(prompt_parts, user_prompt)
                sending == Say("info", MsgSendingPrefix
                                       \o IntStr(Len(selected_files_display))
                                       \o MsgSendingSuffix)
            IN  /\ prompt_parts' = parts
                /\ IF "GOOGLE_API_KEY" \notin DOMAIN secrets
                   THEN /\ runEnd' = "uncaught"
                        /\ display' = Append(display, sending)
                        /\ requests' = requests
                   ELSE LET api_key == secrets["GOOGLE_API_KEY"]
                        IN  \E outcome \in GenerateOutcomes(api_key) :
                              /\ requests' = Append(requests,
                                    [kind |-> "generate_content", api_key |-> api_key,
                                     parts |-> parts, ok |-> outcome.ok])
                              /\ display' = display \o
                                    <<sending, Say("subheader", MsgResponseHeader),
                                      Say("write", GetGeminiResponse(api_key, parts, outcome))>>
                              /\ runEnd' = "complete"
    /\ UNCHANGED <<env, credentials, query_params, button, widgets, items, widgetState,
                   status, processed, call, ret, extracted>>

\* -------------------------------------------------------- the user's moves
\* every move of the user on the page makes Streamlit run the script again
\* the authorize link leads back to the page with ?code=...
UserReturnWithCode ==
    /\ pc = "idle"
    /\ \E d \in Range(display) : d.kind = "markdown"
    /\ \E c \in Codes : query_params' = [k \in {"code"} |-> c]
    /\ pc' = "start"
    /\ button' = FALSE
    /\ ResetRun
    /\ UNCHANGED <<env, credentials, widgetState>>

UserSelect ==
    /\ pc = "idle"
    /\ widgets
    /\ \E sel \in Selections(DOMAIN FileOptions(items)) :
         /\ sel # selected_files_display
         /\ selected_files_display' = sel
    /\ pc' = "start"
    /\ button' = FALSE
    /\ ResetRun
    /\ UNCHANGED <<env, credentials, query_params, user_prompt>>

UserEditPrompt ==
    /\ pc = "idle"
    /\ widgets
    /\ \E p \in Prompts :
         /\ p # user_prompt
         /\ user_prompt' = p
    /\ pc' = "start"
    /\ button' = FALSE
    /\ ResetRun
    /\ UNCHANGED <<env, credentials, query_params, selected_files_display>>

UserClickAnalyze ==
    /\ pc = "idle"
    /\ widgets
    /\ ~ButtonDisabled(selected_files_display, user_prompt)
    /\ pc' = "start"
    /\ button' = TRUE
    /\ ResetRun
    /\ UNCHANGED <<env, credentials, query_params, widgetState>>

Next ==
    \/ RunStart
    \/ AuthBlock
    \/ ListFiles
    \/ Render
    \/ LoopFetch
    \/ LoopExtract
    \/ LoopEnd
    \/ ModelStep
    \/ UserReturnWithCode
    \/ UserSelect
    \/ UserEditPrompt
    \/ UserClickAnalyze

Spec == Init /\ [][Next]_vars

\* --------------------------------------- get_file_content on its own
\* every file record, every outcome of the fetch and of the document library
ExtractInit ==
    /\ secrets = [k \in {} |-> "good"]
    /\ credentials = NoKey
    /\ query_params = [k \in {} |-> "code-valid"]
    /\ drive = <<>>
    /\ pc = "call"
    /\ button = FALSE
    /\ widgets = FALSE
    /\ items = <<>>
    /\ selected_files_display = <<>>
    /\ user_prompt = <<>>
    /\ status = NoStatus
    /\ prompt_parts = <<>>
    /\ processed = 0
    /\ \E file_info \in FileRecordsAt(<<49>>, MimeTypes) :
         \E fetch \in FetchOutcomes(ByteAlphabet, MaxBytesLen),
            parse \in ParseOutcomes(Get(file_info, "mimeType", EmptyStr)) :
            call = [file_info |-> file_info, fetch |-> fetch, parse |-> parse]
    /\ ret = NoCall
    /\ extracted = <<>>
    /\ requests = <<>>
    /\ display = <<>>
    /\ runEnd = "running"

ExtractCall ==
    /\ pc = "call"
    /\ ret' = GetFileContent(call.file_info, call.fetch, call.parse)
    /\ pc' = "returned"
    /\ UNCHANGED <<env, credentials, query_params, button, widgets, items, widgetState,
                   status, prompt_parts, processed, call, extracted, requests, display,
                   runEnd>>

ExtractNext == ExtractCall

SpecExtract == ExtractInit /\ [][ExtractNext]_vars

\* ================================================================ claims
\* 'ERROR:'
ErrorTag == <<69, 82, 82, 79, 82, 58>>

CallMime == Get(call.file_info, "mimeType", EmptyStr)
GetMediaRequests == SelectSeq(requests, LAMBDA r : r.kind = "get_media")
GenerateRequests == SelectSeq(requests, LAMBDA r : r.kind = "generate_content")
\* the run went through the for loop
LoopEntered == status.state # "none"
\* the run got to line 157 with something to send
ModelStepDone == pc = "idle" /\ status.state = "complete" /\ prompt_parts # <<>>
AllText == \A i \in DOMAIN extracted : extracted[i].type = "text"

\* C1: get_file_content always returns one of the three variants and never
\* raises; a media type outside the recognized ones, a failed fetch or a
\* failed document parse gives 'unsupported' with a non-empty reason.
C1_NeverRaises ==
    pc = "returned" =>
        /\ ~ret.raised
        /\ ret.type \in {"text", "image", "unsupported"}
        /\ (CallMime \in {MimeZip, EmptyStr} \/ ~call.fetch.ok \/ ~call.parse.ok)
              => ret.type = "unsupported" /\ Len(ret.content) > 0

C1_Witness ==
    /\ pc = "returned"
    /\ CallMime = MimePdf
    /\ call.fetch.ok
    /\ ~call.parse.ok
    /\ ~ret.raised
    /\ ret.type = "unsupported"

\* C2 (as claimed): an analyze run that has ended has processed every
\* selected file and has reached 'All files processed!', whatever went wrong
\* with single files.
C2_SkipOnly ==
    (pc = "idle" /\ LoopEntered) =>
        /\ processed = Len(selected_files_display)
        /\ status.label = LabelAllProcessed
        /\ status.state = "complete"

\* C3 (as claimed): when the model step fails, for a missing key as for a
\* failed call, the run does not end in an uncaught exception and the text
\* written to the page starts with 'ERROR:'; a successful call writes the reply.
C3_ModelFailureShown ==
    ModelStepDone =>
        /\ runEnd # "uncaught"
        /\ \E d \in Range(display) :
              /\ d.kind = "write"
              /\ \A r \in Range(GenerateRequests) :
                    IF r.ok THEN d.text \in Replies ELSE StartsWith(d.text, ErrorTag)

\* C4 (as claimed): with only Text extractions T1..Tn the parts sent to the
\* model are exactly [P, T1, ..., Tn].
C4_Original ==
    \A r \in Range(GenerateRequests) :
        AllText =>
            r.parts = <<StrPart(user_prompt)>>
                      \o [i \in DOMAIN extracted |-> StrPart(extracted[i].content)]

\* C4 (amended): with only Text extractions T1..Tn of the selected files
\* named N1..Nn the parts sent to the model are [P, H1 + T1, ..., Hn + Tn]
\* where Hi is '\n--- DOCUMENT: ' + Ni + ' ---\n'.
C4_Amended ==
    \A r \in Range(GenerateRequests) :
        AllText =>
            /\ Len(extracted) = Len(selected_files_display)
            /\ r.parts = <<StrPart(user_prompt)>>
                         \o [i \in DOMAIN extracted |->
                               StrPart(DocumentHeaderOpen \o selected_files_display[i]
                                       \o DocumentHeaderClose \o extracted[i].content)]

C4_Witness ==
    /\ GenerateRequests # <<>>
    /\ AllText
    /\ Len(extracted) = 2
    /\ extracted[1].content # extracted[2].content

\* C5 (as claimed): for a text/ media type the result is the Text variant
\* holding the UTF-8 decoding in which every undecodable sequence is replaced
\* by the replacement marker.
C5_Original ==
    (pc = "returned" /\ StartsWith(CallMime, TextPrefix) /\ call.fetch.ok) =>
        /\ ret.type = "text"
        /\ ret.content = Utf8Decode(call.fetch.bytes, "replace")

\* C5 (amended): for a text/ media type the result is the Text variant
\* holding the UTF-8 decoding in which every undecodable sequence is removed
\* (nothing is put in its place) and every decodable sequence is kept in order.
C5_Amended ==
    (pc = "returned" /\ StartsWith(CallMime, TextPrefix) /\ call.fetch.ok) =>
        /\ ret.type = "text"
        /\ ret.content = SelectSeq(Utf8Decode(call.fetch.bytes, "replace"),
                                   LAMBDA c : c # ReplacementChar)

C5_Witness ==
    /\ pc = "returned"
    /\ StartsWith(CallMime, TextPrefix)
    /\ call.fetch.ok
    /\ ret.type = "text"
    /\ ret.content # <<>>
    /\ ReplacementChar \in Range(Utf8Decode(call.fetch.bytes, "replace"))

\* C6: the files are fetched one at a time in selection order: a fetch starts
\* only when no get_file_content call is in progress, the ids fetched so far
\* are those of the first selected entries in order, and at 'All files
\* processed!' every selected entry has been fetched.
C6_FetchedInOrder ==
    /\ Len(GetMediaRequests) <= Len(selected_files_display)
    /\ \A i \in DOMAIN GetMediaRequests :
          GetMediaRequests[i].fileId = FileOptions(items)[selected_files_display[i]].id
    /\ status.state = "complete" => Len(GetMediaRequests) = Len(selected_files_display)

C6_OneAtATime ==
    (Len(GetMediaRequests') > Len(GetMediaRequests)) =>
        /\ call = NoCall
        /\ call' # NoCall
        /\ Len(GetMediaRequests') = Len(GetMediaRequests) + 1
        /\ Len(GetMediaRequests) = processed

C6_Sequential == [](C6_FetchedInOrder) /\ [][C6_OneAtATime]_vars

C6_Witness ==
    /\ status.state = "complete"
    /\ Len(GetMediaRequests) = 2
    /\ GetMediaRequests[1].fileId = <<50>>
    /\ GetMediaRequests[2].fileId = <<49>>

\* C7: with the client configuration missing or malformed no code exchange
\* is attempted, the credential stays absent, no listing, fetch or model
\* request is sent, and a run that has ended shows an error message.
BadConfig ==
    "google_credentials" \notin DOMAIN secrets \/ secrets["google_credentials"] = "bad"

C7_HaltsBeforeAuth ==
    BadConfig =>
        /\ ~Truthy(credentials)
        /\ requests = <<>>
        /\ pc \in {"start", "auth", "idle"}
        /\ pc = "idle" => /\ runEnd = "complete"
                          /\ display # <<>>
                          /\ \A d \in Range(display) : d.kind = "error"

C7_Witness ==
    /\ BadConfig
    /\ "google_credentials" \in DOMAIN secrets
    /\ "code" \in DOMAIN query_params
    /\ query_params["code"] = "code-valid"
    /\ pc = "idle"
    /\ Len(display) = 2

\* C8 (as claimed): every listing, fetch and model request of the run is sent
\* while the credential is present and uses the stored credential.
C8_Original ==
    \A r \in Range(requests) :
        r.kind \in {"list", "get_media", "generate_content"} =>
            /\ Truthy(credentials)
            /\ "auth" \in DOMAIN r
            /\ r.auth = FromAuthorizedUserInfo(credentials)

\* C8 (amended): the credential goes from absent to present only in a
\* successful code exchange and never changes once present; listing, fetch
\* and model requests are sent only while it is present; listing and fetch
\* requests use the stored credential and the model request uses the API key
\* of the secrets, not the credential.
C8_Step ==
    /\ Truthy(credentials) => credentials' = credentials
    /\ (~Truthy(credentials) /\ Truthy(credentials')) =>
          /\ pc = "auth"
          /\ Len(requests') = Len(requests) + 1
          /\ requests'[Len(requests')].kind = "fetch_token"
    /\ Len(requests') > Len(requests) =>
          LET r == requests'[Len(requests')]
          IN  \/ r.kind = "fetch_token"
              \/ /\ Truthy(credentials)
                 /\ r.kind \in {"list", "get_media"}
                 /\ r.auth = FromAuthorizedUserInfo(credentials)
              \/ /\ Truthy(credentials)
                 /\ r.kind = "generate_content"
                 /\ "auth" \notin DOMAIN r
                 /\ r.api_key = secrets["GOOGLE_API_KEY"]

C8_Amended == [][C8_Step]_vars

C8_Witness ==
    /\ Truthy(credentials)
    /\ GenerateRequests # <<>>
    /\ GetMediaRequests # <<>>

\* C9 (as claimed): once the selector is on the page every listed record is
\* the record of some selectable entry, and entries and records are in
\* one-to-one correspondence.
C9_OneToOne ==
    widgets =>
        /\ \A i \in DOMAIN items :
              \E n \in DOMAIN FileOptions(items) : FileOptions(items)[n] = items[i]
        /\ Cardinality(DOMAIN FileOptions(items)) = Len(items)

\* C10: a run sends at most one model request, only after some selected file
\* gave a Text or Image part, and always with the user prompt first and at
\* least one part after it; when every file was skipped none is sent.
C10_ModelCall ==
    /\ Len(GenerateRequests) <= 1
    /\ \A r \in Range(GenerateRequests) :
          /\ Len(r.parts) >= 2
          /\ r.parts[1] = StrPart(user_prompt)
          /\ \E i \in DOMAIN extracted : extracted[i].type \in {"text", "image"}
    /\ (pc = "idle" /\ status.state = "complete"
          /\ \A i \in DOMAIN extracted : extracted[i].type = "unsupported")
          => /\ GenerateRequests = <<>>
             /\ prompt_parts = <<>>

C10_Witness ==
    /\ pc = "idle"
    /\ status.state = "complete"
    /\ Len(extracted) = 2
    /\ \A i \in DOMAIN extracted : extracted[i].type = "unsupported"
    /\ GenerateRequests = <<>>

====
